---------------------------- MODULE Spec2Model ----------------------------
(***************************************************************************)
(* A model of scripts/sync.py (class Sync): host resolution, the           *)
(* per-(host, direction) concurrent transfer phase (_process_host with     *)
(* _get_one_sync_task under an asyncio.Semaphore) and the sequential       *)
(* orchestration of the phases (_run_sync).                                *)
(*                                                                         *)
(* Strings are sequences: a host name or a target token is a sequence of   *)
(* characters, a text (stdout, stderr, a path, a log line) is a sequence   *)
(* of tokens.  `x in y` of Python is the contiguous-subsequence test In.   *)
(***************************************************************************)
EXTENDS Integers, Sequences, FiniteSets, TLC

VARIABLES
    config,        \* the parsed configuration file (self.config)
    hostname,      \* socket.gethostname()
    args,          \* the parsed command line (self.args)
    pc,            \* position of the main control flow
    this_host,     \* self.this_host
    target_hosts,  \* self.target_hosts
    semaphores,    \* self.semaphores: host -> direction -> semaphore
    warnings,      \* target tokens warned about by _get_hosts
    hi,            \* index of the target host the loop of _run_sync is at
    stage,         \* what _run_sync does next for that host
    success_up,    \* local success_up of _run_sync
    success_down,  \* local success_down of _run_sync
    calls,         \* the _process_host calls made so far
    returned,      \* what the calls of this iteration of _run_sync returned
    reports,       \* the per-host final log lines of _run_sync
    cur,           \* the (target_host, direction) of the running phase
    tasks,         \* the coroutines handed to asyncio.gather, in order
    ri,            \* index of the next result the loop of _process_host reads
    successful,    \* local successful of _process_host
    log,           \* what the current _process_host call has logged
    error          \* the error logged before an exit(1) of __init__

vars == << config, hostname, args, pc, this_host, target_hosts, semaphores,
           warnings, hi, stage, success_up, success_down, calls, returned,
           reports, cur, tasks, ri, successful, log, error >>

-----------------------------------------------------------------------------
(* Bounds of the model *)

\* largest number of elements configured for this_host besides _PATH
MaxElems == 3
\* largest value of --ntasks
MaxNtasks == 2
\* largest number of target tokens on the command line
MaxTargets == 2
\* largest number of host sections in the configuration file
MaxHosts == 3

-----------------------------------------------------------------------------
(* Strings *)

\* Python's `s in t` for strings: s is a contiguous part of t
In(s, t) ==
    \E i \in 0..(Len(t) - Len(s)) : SubSeq(t, i + 1, i + Len(s)) = s

\* Python's `x in list`
Member(x, list) == \E i \in DOMAIN list : list[i] = x

EndsWith(t, tok) == Len(t) > 0 /\ t[Len(t)] = tok

StartsWith(t, tok) == Len(t) > 0 /\ t[1] = tok

\* Sync._ALIASES and Sync._PATH
ALIASES == <<"A", "L", "I", "A", "S", "E", "S">>
PATH == "_PATH"
\* the sentinel target of _get_hosts
ALL == <<"a", "l", "l">>
\* this_host = None
None == << >>


-----------------------------------------------------------------------------
(* The configuration file.  config.keys are the top-level keys in file     *)
(* order (a YAML mapping: no key twice), config.elems[h] the element       *)
(* names of host h in file order, config.paths[h][e] the value of element  *)
(* e of host h, config.aliases the ALIASES section (a function from alias  *)
(* tokens to host names, read only when ALIASES is a top-level key).       *)

\* list(self.config[host])
Elements(host) == config.elems[host]

\* _read_config, lines 388-395: replace every target token that is an alias
ResolveAliases(cfg, targets) ==
    IF Member(ALIASES, cfg.keys)
    THEN [i \in DOMAIN targets |->
            IF targets[i] \in DOMAIN cfg.aliases
            THEN cfg.aliases[targets[i]]
            ELSE targets[i]]
    ELSE targets

-----------------------------------------------------------------------------
(* _get_hosts *)

\* line 105
AllHosts(cfg) == SelectSeq(cfg.keys, LAMBDA host : host # ALIASES)

\* the loop of lines 107-113, from index i on: every host that is part of
\* the full host name is assigned to this_host in turn, the others are
\* appended to other_hosts
RECURSIVE PartitionHosts(_, _, _, _, _)
PartitionHosts(all_hosts, fullname, i, this, others) ==
    IF i > Len(all_hosts)
    THEN [this_host |-> this, other_hosts |-> others]
    ELSE IF In(all_hosts[i], fullname)
         THEN PartitionHosts(all_hosts, fullname, i + 1, all_hosts[i], others)
         ELSE PartitionHosts(all_hosts, fullname, i + 1, this,
                             Append(others, all_hosts[i]))

\* the inner for/else of lines 121-130: the first configured host that is
\* part of the token, None when there is none
RECURSIVE FirstHostIn(_, _, _)
FirstHostIn(all_hosts, token, i) ==
    IF i > Len(all_hosts) THEN None
    ELSE IF In(all_hosts[i], token) THEN all_hosts[i]
    ELSE FirstHostIn(all_hosts, token, i + 1)

\* the outer loop of lines 120-130
RECURSIVE MatchTargets(_, _, _, _)
MatchTargets(all_hosts, targets, i, acc) ==
    IF i > Len(targets) THEN acc
    ELSE LET host == FirstHostIn(all_hosts, targets[i], 1)
         IN  MatchTargets(all_hosts, targets, i + 1,
                          IF host = None
                          THEN [acc EXCEPT !.warned = Append(@, targets[i])]
                          ELSE [acc EXCEPT !.hosts = Append(@, host)])

\* lines 115-130
TargetHosts(all_hosts, other_hosts, targets) ==
    IF Member(ALL, targets)
    THEN [hosts |-> other_hosts, warned |-> << >>]
    ELSE MatchTargets(all_hosts, targets, 1,
                      [hosts |-> << >>, warned |-> << >>])

\* _get_hosts without the check of lines 149-151
ValidateHostsNoSelfCheck(this, targets) ==
    IF this = None THEN "NoLocalHostMatch"
    ELSE IF targets = << >> THEN "NoTargetHostMatch"
    ELSE "ok"

\* lines 132-151: the first failing check ends the process
ValidateHosts(this, targets) ==
    IF this = None THEN "NoLocalHostMatch"
    ELSE IF targets = << >> THEN "NoTargetHostMatch"
    ELSE IF Member(this, targets) THEN "SelfSyncRequested"
    ELSE "ok"

\* _get_hosts as a whole
GetHosts(cfg, fullname, targets) ==
    LET all_hosts == AllHosts(cfg)
        part      == PartitionHosts(all_hosts, fullname, 1, None, << >>)
        tgt       == TargetHosts(all_hosts, part.other_hosts, targets)
    IN  [status       |-> ValidateHosts(part.this_host, tgt.hosts),
         this_host    |-> part.this_host,
         target_hosts |-> tgt.hosts,
         warned       |-> tgt.warned]

\* _get_semaphores: one semaphore per direction for every target host
GetSemaphores(targets, ntasks) ==
    [host \in {targets[i] : i \in DOMAIN targets} |->
        [dir \in {"up", "down"} |-> [value |-> ntasks, waiters |-> << >>]]]

-----------------------------------------------------------------------------
(* Texts.  A stdout is the list stdout.split('\n') of its lines, each a    *)
(* sequence of tokens; the empty stdout is the single empty line.  A       *)
(* stderr and a path are sequences of tokens.                              *)

EmptyStdout == << << >> >>

\* the set of the elements of a sequence
Range(seq) == {seq[i] : i \in DOMAIN seq}

\* str.replace(old, new): every token old becomes new
Replace(text, old, new) ==
    [i \in DOMAIN text |-> IF text[i] = old THEN new ELSE text[i]]

\* str.replace(old, '', 1): the first token old is removed
RECURSIVE RemoveFirst(_, _)
RemoveFirst(text, old) ==
    IF text = << >> THEN << >>
    ELSE IF Head(text) = old THEN Tail(text)
    ELSE << Head(text) >> \o RemoveFirst(Tail(text), old)

\* _expanduser: the home directory for a leading ~/, a trailing / is kept
Expanduser(path) ==
    IF StartsWith(path, "~/") THEN << "/home/" >> \o Tail(path) ELSE path

\* lines 190 and 199-200: `p + info if p.endswith('/') else p`
AppendIfDir(p, info) == IF EndsWith(p, "/") THEN p \o info ELSE p

\* lines 165-171
NotRelevant(info) ==
    \/ Member("CR", info)
    \/ info = << >>
    \/ info = << "./" >>
    \/ StartsWith(info, "sent ")
    \/ StartsWith(info, "total size is")

\* lines 175-205: the message of one relevant line
LogInfoOf(info, src, dest, dry_run) ==
    IF Member("created directory ", info)
    THEN << "    " >>
         \o Replace(info, "created directory ",
                    IF dry_run THEN "Would create directory '"
                    ELSE "Created directory '")
         \o << "'" >>
    ELSE IF StartsWith(info, "deleting ")
    THEN << IF dry_run THEN "    Would delete " ELSE "    Deleted ", "'" >>
         \o AppendIfDir(dest, RemoveFirst(info, "deleting "))
         \o << "'" >>
    ELSE << IF dry_run THEN "    Would move " ELSE "    Successfully moved ",
            "'" >>
         \o AppendIfDir(src, info) \o << "' to '" >>
         \o AppendIfDir(dest, info) \o << "'" >>

\* _get_log_info: the first line is dropped, the messages are returned as
\* list(set(...)), so without duplicates and in no particular order
GetLogInfo(stdout, src, dest, dry_run) ==
    LET lines == Tail(stdout)
    IN  {LogInfoOf(lines[i], src, dest, dry_run) :
            i \in {j \in DOMAIN lines : ~NotRelevant(lines[j])}}

\* lines 358-361
ConnectionError(stderr) ==
    \/ Member("Connection refused", stderr)
    \/ Member("Could not resolve hostname", stderr)

\* line 369: stderr.strip('\n').replace('\n', '; ')
RECURSIVE StripLeft(_)
StripLeft(text) ==
    IF text # << >> /\ Head(text) = "NL" THEN StripLeft(Tail(text)) ELSE text

RECURSIVE StripRight(_)
StripRight(text) ==
    IF EndsWith(text, "NL")
    THEN StripRight(SubSeq(text, 1, Len(text) - 1)) ELSE text

WarningOf(stderr) == Replace(StripRight(StripLeft(stderr)), "NL", "; ")

\* all orders in which the members of a finite set can be listed
RECURSIVE Orders(_)
Orders(S) ==
    IF S = {} THEN { << >> }
    ELSE UNION {{ << x >> \o o : o \in Orders(S \ {x})} : x \in S}

-----------------------------------------------------------------------------
(* _get_one_sync_task up to the semaphore, lines 213-234 *)

HasPath(host) == Member(PATH, config.elems[host])

TargetHostPath(target_host) ==
    IF HasPath(target_host)
    THEN Expanduser(config.paths[target_host][PATH])
    ELSE target_host \o << ":./" >>

ThisElement(element) ==
    Expanduser(<< "~/" >> \o config.paths[this_host][element])

TargetElement(element, target_host) ==
    TargetHostPath(target_host) \o config.paths[target_host][element]

Src(element, direction, target_host) ==
    IF direction = "up" THEN ThisElement(element)
    ELSE TargetElement(element, target_host)

Dest(element, direction, target_host) ==
    IF direction = "up" THEN TargetElement(element, target_host)
    ELSE ThisElement(element)

-----------------------------------------------------------------------------
(* Log lines: [level, msg, of]; `of` is the index of the task whose result  *)
(* or start the line was logged for, 0 for a line that is about no task.   *)

LineOf(level, msg, of) == [level |-> level, msg |-> msg, of |-> of]

Line(level, msg) == LineOf(level, msg, 0)

Prefix(direction) == IF direction = "up" THEN "Upload" ELSE "Download"

NoSharedMsg(direction) ==
    << "    ", Prefix(direction),
       ": the two hosts do not share common elements" >>

CannotConnectMsg(direction, target_host) ==
    << "    ", Prefix(direction), ": cannot connect to host '" >>
    \o target_host \o << "'" >>

StartedMsg(direction, dry_run) ==
    << "Started ", IF dry_run THEN "simulation of " ELSE "",
       IF direction = "up" THEN "upload" ELSE "download" >>

\* lines 470-484
ReportOf(target_host, ok, dry_run) ==
    Line(IF ok THEN "info" ELSE "warning",
         << IF dry_run THEN "Simulated" ELSE "Completed",
            " synchronization between '" >> \o this_host \o << "' and '" >>
         \o target_host
         \o << IF ok THEN "'" ELSE "' with error(s)" >>)

-----------------------------------------------------------------------------
(* Construction: Sync.__init__ *)

\* an exit that returns to its caller: the constructor goes on
ExitReturns(status) == "constructed"

\* exit(1), lines 140, 148, 151 and 380: the process ends, and `status` names
\* the error it has logged
Exit(status) == status

\* __init__, lines 96-101: _read_config, _get_hosts, _get_semaphores
Construct ==
    /\ pc = "start"
    /\ IF ~config.is_file
       THEN /\ pc' = Exit("ConfigNotFound")
            /\ error' = "ConfigNotFound"
            /\ UNCHANGED << args, this_host, target_hosts, semaphores,
                            warnings >>
       ELSE LET targets == ResolveAliases(config, args.targets)
                res     == GetHosts(config, hostname, targets)
            IN  /\ args' = [args EXCEPT !.targets = targets]
                /\ warnings' = res.warned
                /\ IF res.status = "ok"
                   THEN /\ pc' = "constructed"
                        /\ this_host' = res.this_host
                        /\ target_hosts' = res.target_hosts
                        /\ semaphores' =
                               GetSemaphores(res.target_hosts, args.ntasks)
                        /\ UNCHANGED error
                   ELSE /\ pc' = Exit(res.status)
                        /\ error' = res.status
                        /\ UNCHANGED << this_host, target_hosts, semaphores >>
    /\ UNCHANGED << config, hostname, hi, stage, success_up, success_down,
                    calls, returned, reports, cur, tasks, ri, successful,
                    log >>

-----------------------------------------------------------------------------
(* _run_sync *)

\* direction selection that reads --up alone
PerformUpFlagOnly == args.up

\* lines 426-431
PerformUp == IF args.up = args.down THEN TRUE ELSE args.up

PerformDown == IF args.up = args.down THEN TRUE ELSE args.down

\* lines 401-437 and the head of the first iteration (lines 447-448)
RunSyncBegin ==
    /\ pc = "constructed"
    /\ pc' = "loop"
    /\ hi' = 1
    /\ stage' = "up"
    /\ success_up' = TRUE
    /\ success_down' = TRUE
    /\ returned' = << >>
    /\ UNCHANGED << error, config, hostname, args, this_host, target_hosts,
                    semaphores, warnings, calls, reports, cur, tasks, ri,
                    successful, log >>

\* the value `stage` takes when the phase of `direction` has returned
StageAfter(direction) == IF direction = "up" THEN "down" ELSE "fold"

\* a _run_sync that leaves its loop when a phase has failed
ReturnStopsOnFailure(direction, value, aborted) ==
    /\ pc' = IF value THEN "loop" ELSE "done"
    /\ stage' = StageAfter(direction)
    /\ success_up' = IF direction = "up" THEN value ELSE success_up
    /\ success_down' = IF direction = "down" THEN value ELSE success_down
    /\ calls' = Append(calls, [host |-> target_hosts[hi],
                               direction |-> direction])
    /\ returned' = Append(returned, [direction |-> direction,
                                     result |-> value, aborted |-> aborted])

\* what _run_sync does with the value _process_host returns (lines 456, 464);
\* aborted tells the return of line 366 from the others
Return(direction, value, aborted) ==
    /\ pc' = "loop"
    /\ stage' = StageAfter(direction)
    /\ success_up' = IF direction = "up" THEN value ELSE success_up
    /\ success_down' = IF direction = "down" THEN value ELSE success_down
    /\ calls' = Append(calls, [host |-> target_hosts[hi],
                               direction |-> direction])
    /\ returned' = Append(returned, [direction |-> direction,
                                     result |-> value, aborted |-> aborted])

\* `if perform_up:` / `if perform_down:` is false
SkipPhase ==
    /\ pc = "loop"
    /\ \/ stage = "up" /\ ~PerformUp
       \/ stage = "down" /\ ~PerformDown
    /\ stage' = StageAfter(stage)
    /\ UNCHANGED << error, config, hostname, args, pc, this_host, target_hosts,
                    semaphores, warnings, hi, success_up, success_down,
                    calls, returned, reports, cur, tasks, ri, successful,
                    log >>

\* `successful = (success_up or success_down)`
HostSuccessfulEither(up, down) == up \/ down

\* line 467
HostSuccessful(up, down) == up /\ down

\* lines 467-485, and the head of the next iteration (lines 447-448)
Fold ==
    /\ pc = "loop"
    /\ stage = "fold"
    /\ reports' = Append(reports,
                         [host |-> target_hosts[hi],
                          line |-> ReportOf(target_hosts[hi],
                                            HostSuccessful(success_up,
                                                           success_down),
                                            args.dry_run)])
    /\ hi' = hi + 1
    /\ stage' = "up"
    /\ success_up' = TRUE
    /\ success_down' = TRUE
    /\ returned' = << >>
    /\ pc' = IF hi + 1 > Len(target_hosts) THEN "done" ELSE "loop"
    /\ UNCHANGED << error, config, hostname, args, this_host, target_hosts,
                    semaphores, warnings, calls, cur, tasks, ri, successful,
                    log >>

-----------------------------------------------------------------------------
(* _process_host and its tasks.  A task is the coroutine                   *)
(* _get_one_sync_task(element, direction, target_host); st is where it is: *)
(*   "pending"  created, not yet run                                       *)
(*   "waiting"  suspended in the semaphore's acquire()                     *)
(*   "woken"    given a permit by a release(), not yet resumed             *)
(*   "running"  holds a permit, its subprocess runs                        *)
(*   "exited"   its subprocess has terminated, it has not yet resumed      *)
(*   "done"     has released its permit and returned its result            *)

\* the loop of lines 334-340 without the `continue` of line 336
SharedElementsWithPath(elements_this, elements_target) ==
    SelectSeq(elements_this,
              LAMBDA element : Member(element, elements_target))

\* lines 334-340: one task per element of this host, _PATH aside, that the
\* target host has too
SharedElements(elements_this, elements_target) ==
    SelectSeq(elements_this,
              LAMBDA element :
                  element # PATH /\ Member(element, elements_target))

NewTask(element, direction, target_host) ==
    [element |-> element, st |-> "pending",
     src |-> Src(element, direction, target_host),
     dest |-> Dest(element, direction, target_host),
     stdout |-> EmptyStdout, stderr |-> << >>]

BuildTasks(elements_this, elements_target, direction, target_host) ==
    LET shared == SharedElements(elements_this, elements_target)
    IN  [i \in DOMAIN shared |-> NewTask(shared[i], direction, target_host)]

\* line 324
NoCommonElements(elements_this, elements_target) ==
    Range(elements_this) \cap Range(elements_target) = {}

\* lines 317-343, up to the await of asyncio.gather
ProcessHostBegin ==
    /\ pc = "loop"
    /\ \/ stage = "up" /\ PerformUp
       \/ stage = "down" /\ PerformDown
    /\ LET target_host == target_hosts[hi]
           started == Line("info", StartedMsg(stage, args.dry_run))
       IN  /\ cur' = [host |-> target_host, direction |-> stage]
           /\ ri' = 1
           /\ successful' = TRUE
           /\ IF NoCommonElements(Elements(this_host), Elements(target_host))
              THEN /\ log' = << started, Line("info", NoSharedMsg(stage)) >>
                   /\ tasks' = << >>
                   /\ Return(stage, TRUE, FALSE)
              ELSE /\ log' = << started >>
                   /\ tasks' = BuildTasks(Elements(this_host),
                                          Elements(target_host),
                                          stage, target_host)
                   /\ pc' = "phase"
                   /\ UNCHANGED << stage, success_up, success_down, calls,
                                   returned >>
    /\ UNCHANGED << error, config, hostname, args, this_host, target_hosts,
                    semaphores, warnings, hi, reports >>

\* the semaphore of the running phase
Sem == semaphores[cur.host][cur.direction]

\* a semaphore that admits whenever nobody waits, whatever its value
LockedIgnoresValue(sem) == sem.waiters # << >>

\* Semaphore.locked()
Locked(sem) == sem.value = 0 \/ sem.waiters # << >>

\* a release() that wakes nobody
WakeUpNobody(p) == p

\* Semaphore._wake_up_next() on the pair [sem, tasks]: the first waiter not
\* yet woken is given a permit
WakeUpNext(p) ==
    LET waiting == {k \in DOMAIN p.sem.waiters :
                        p.tasks[p.sem.waiters[k]].st = "waiting"}
    IN  IF waiting = {} THEN p
        ELSE LET k == CHOOSE k \in waiting : \A l \in waiting : k <= l
                 i == p.sem.waiters[k]
             IN  [sem   |-> [p.sem EXCEPT !.value = @ - 1],
                  tasks |-> [p.tasks EXCEPT ![i].st = "woken"]]

\* a release() that wakes the next waiter and keeps its own permit
ReleaseKeepsPermit(p) == WakeUpNext(p)

\* Semaphore.release()
Release(p) == WakeUpNext([p EXCEPT !.sem.value = @ + 1])

\* the first step of task i, lines 213-242: Semaphore.acquire() either takes
\* a permit, and the subprocess is started, or suspends the task
TaskStart(i) ==
    /\ pc = "phase"
    /\ i \in DOMAIN tasks
    /\ tasks[i].st = "pending"
    /\ \A j \in 1..(i - 1) : tasks[j].st # "pending"
    /\ log' = Append(log, LineOf("debug", << "    Initializing command" >>, i))
    /\ IF ~Locked(Sem)
       THEN /\ semaphores' = [semaphores EXCEPT
                                ![cur.host][cur.direction].value = @ - 1]
            /\ tasks' = [tasks EXCEPT ![i].st = "running"]
       ELSE /\ semaphores' = [semaphores EXCEPT
                                ![cur.host][cur.direction].waiters =
                                    Append(@, i)]
            /\ tasks' = [tasks EXCEPT ![i].st = "waiting"]
    /\ UNCHANGED << error, config, hostname, args, pc, this_host, target_hosts,
                    warnings, hi, stage, success_up, success_down, calls,
                    returned, reports, cur, ri, successful >>

\* a task woken by a release() resumes in acquire() (it leaves the waiters
\* and passes a spare permit on) and starts its subprocess, line 242
TaskResume(i) ==
    /\ pc = "phase"
    /\ i \in DOMAIN tasks
    /\ tasks[i].st = "woken"
    /\ LET left == [sem   |-> [Sem EXCEPT !.waiters =
                                  SelectSeq(@, LAMBDA w : w # i)],
                    tasks |-> [tasks EXCEPT ![i].st = "running"]]
           p == IF left.sem.value > 0 THEN WakeUpNext(left) ELSE left
       IN  /\ semaphores' = [semaphores EXCEPT
                               ![cur.host][cur.direction] = p.sem]
           /\ tasks' = p.tasks
    /\ UNCHANGED << error, config, hostname, args, pc, this_host, target_hosts,
                    warnings, hi, stage, success_up, success_down, calls,
                    returned, reports, cur, ri, successful, log >>

\* what a transfer subprocess may write
Header == << "sending incremental file list" >>
Summary == << "sent ", "9 bytes" >>

Stdouts ==
    { EmptyStdout,
      << Header, << "created directory ", "d" >>, << "f" >>, << >>, Summary >> }

Stderrs ==
    { << >>,
      << "rsync: some warning", "NL" >>,
      << "ssh: connect to host x port 22: ", "Connection refused", "NL" >>,
      << "ssh: ", "Could not resolve hostname", " x", "NL" >> }

\* the subprocess of task i terminates, its output is drained (line 245)
SubprocessExit(i) ==
    /\ pc = "phase"
    /\ i \in DOMAIN tasks
    /\ tasks[i].st = "running"
    /\ \E out \in Stdouts, err \in Stderrs :
          tasks' = [tasks EXCEPT ![i].st = "exited",
                                 ![i].stdout = out,
                                 ![i].stderr = err]
    /\ UNCHANGED << error, config, hostname, args, pc, this_host, target_hosts,
                    semaphores, warnings, hi, stage, success_up,
                    success_down, calls, returned, reports, cur, ri,
                    successful, log >>

\* task i resumes after communicate(), leaves the `async with` (the permit
\* is released) and returns its result, lines 245-248
TaskFinish(i) ==
    /\ pc = "phase"
    /\ i \in DOMAIN tasks
    /\ tasks[i].st = "exited"
    /\ LET p == Release([sem   |-> Sem,
                         tasks |-> [tasks EXCEPT ![i].st = "done"]])
       IN  /\ semaphores' = [semaphores EXCEPT
                               ![cur.host][cur.direction] = p.sem]
           /\ tasks' = p.tasks
    /\ UNCHANGED << error, config, hostname, args, pc, this_host, target_hosts,
                    warnings, hi, stage, success_up, success_down, calls,
                    returned, reports, cur, ri, successful, log >>

\* a gather that returns once every task has had its first step
GatheredWhenStarted == \A i \in DOMAIN tasks : tasks[i].st # "pending"

\* a gather that returns with the first task that has returned
GatheredAny == \E i \in DOMAIN tasks : tasks[i].st = "done"

\* a gather that does not wait: the tasks are left to run on their own
GatheredAtOnce == TRUE

\* asyncio.gather has every result: every task has returned
Gathered == \A i \in DOMAIN tasks : tasks[i].st = "done"

\* str.join of the lines of a stdout
RECURSIVE JoinLines(_)
JoinLines(lines) ==
    IF lines = << >> THEN << >>
    ELSE IF Len(lines) = 1 THEN lines[1]
    ELSE lines[1] \o << "NL" >> \o JoinLines(Tail(lines))

\* what one iteration of the loop of lines 346-371 logs before the checks of
\* stderr: the stdout at debug level, then the messages in the order `order`
InfoLines(result, order, i) ==
    (IF result.stdout # EmptyStdout
     THEN << LineOf("debug", << "    " >> \o JoinLines(result.stdout), i) >>
     ELSE << >>)
    \o [k \in DOMAIN order |-> LineOf("info", order[k], i)]

\* line 366 as `return successful`
EvalFatalReturnsSuccessful(logged) ==
    /\ log' = Append(logged,
                     LineOf("error",
                            CannotConnectMsg(cur.direction, cur.host), ri))
    /\ Return(cur.direction, successful, TRUE)
    /\ UNCHANGED << ri, successful >>

\* lines 362-366 without the return: the error is logged, the loop goes on
EvalFatalGoesOn(logged) ==
    /\ log' = Append(logged,
                     LineOf("error",
                            CannotConnectMsg(cur.direction, cur.host), ri))
    /\ successful' = FALSE
    /\ ri' = ri + 1
    /\ UNCHANGED << pc, stage, success_up, success_down, calls, returned >>

\* lines 362-366: the error is logged and _process_host returns False
EvalFatal(logged) ==
    /\ log' = Append(logged,
                     LineOf("error",
                            CannotConnectMsg(cur.direction, cur.host), ri))
    /\ Return(cur.direction, FALSE, TRUE)
    /\ UNCHANGED << ri, successful >>

\* lines 367-371 without line 371: the warning is logged, `successful` stays
EvalAdvisoryKeepsSuccess(logged, stderr) ==
    /\ IF stderr # << >>
       THEN log' = Append(logged,
                          LineOf("warning",
                                 << "    " >> \o WarningOf(stderr), ri))
       ELSE log' = logged
    /\ ri' = ri + 1
    /\ UNCHANGED << pc, stage, success_up, success_down, calls, returned,
                    successful >>

\* lines 367-371: a stderr that is not empty is logged as a warning and
\* clears `successful`; the loop goes on
EvalAdvisory(logged, stderr) ==
    /\ IF stderr # << >>
       THEN /\ log' = Append(logged,
                             LineOf("warning",
                                    << "    " >> \o WarningOf(stderr), ri))
            /\ successful' = FALSE
       ELSE /\ log' = logged
            /\ UNCHANGED successful
    /\ ri' = ri + 1
    /\ UNCHANGED << pc, stage, success_up, success_down, calls, returned >>

\* results read from the last task to the first
ResultAtReversed(k) == tasks[Len(tasks) + 1 - k]

\* results[k - 1] of line 343: gather returns the results in the order of
\* the coroutines it was given, whatever the order they returned in
ResultAt(k) == tasks[k]

\* one iteration of the loop of lines 346-371, for results[ri]
EvalResult ==
    /\ pc = "phase"
    /\ Gathered
    /\ ri \in DOMAIN tasks
    /\ LET result == ResultAt(ri)
           infos == GetLogInfo(result.stdout, result.src, result.dest,
                               args.dry_run)
       IN  \E order \in Orders(infos) :
              LET logged == log \o InfoLines(result, order, ri)
              IN  IF ConnectionError(result.stderr)
                  THEN EvalFatal(logged)
                  ELSE EvalAdvisory(logged, result.stderr)
    /\ UNCHANGED << error, config, hostname, args, this_host, target_hosts,
                    semaphores, warnings, hi, reports, cur, tasks >>

\* line 373
ProcessHostReturn ==
    /\ pc = "phase"
    /\ Gathered
    /\ ri > Len(tasks)
    /\ Return(cur.direction, successful, FALSE)
    /\ UNCHANGED << error, config, hostname, args, this_host, target_hosts,
                    semaphores, warnings, hi, reports, cur, tasks, ri,
                    successful, log >>

-----------------------------------------------------------------------------
(* Inputs *)

H1 == << "h", "1" >>
H2 == << "h", "2" >>
H3 == << "h", "3" >>

ElemPool == << "e1", "e2", "e3", "e4", "e5" >>

\* the value of element e in the section of host h: e1 is a directory
PathOf(h, e) ==
    IF e = PATH THEN << "~/", "base", "/" >>
    ELSE IF e = "e1" THEN h \o << "/", e, "/" >>
    ELSE h \o << "/", e >>

\* a configuration file with the top-level keys `keys` and the elements
\* elems[h] for every host h
MkConfig(keys, elems, aliases) ==
    [is_file |-> TRUE,
     keys    |-> keys,
     elems   |-> elems,
     paths   |-> [h \in DOMAIN elems |->
                    [e \in Range(elems[h]) |-> PathOf(h, e)]],
     aliases |-> aliases]

NoAliases == [t \in {} |-> None]

MkArgs(targets, up, down, dry_run, ntasks) ==
    [targets |-> targets, up |-> up, down |-> down, dry_run |-> dry_run,
     ntasks |-> ntasks]

\* the state before Sync() is constructed, for the inputs `in`
InitWith(in) ==
    /\ config = in.config
    /\ hostname = in.hostname
    /\ args = in.args
    /\ pc = "start"
    /\ this_host = None
    /\ target_hosts = << >>
    /\ semaphores = << >>
    /\ warnings = << >>
    /\ hi = 0
    /\ stage = "up"
    /\ success_up = TRUE
    /\ success_down = TRUE
    /\ calls = << >>
    /\ returned = << >>
    /\ reports = << >>
    /\ cur = [host |-> None, direction |-> "up"]
    /\ tasks = << >>
    /\ ri = 1
    /\ successful = TRUE
    /\ log = << >>
    /\ error = "none"

LocalName == H1 \o << ".", "l", "a", "n" >>

\* the first n names of the pool, after _PATH when with_path
ElemList(with_path, n) ==
    (IF with_path THEN << PATH >> ELSE << >>) \o SubSeq(ElemPool, 1, n)

\* the element lists of a host: up to MaxElems elements without _PATH, up to
\* one element after _PATH
ElemLists ==
    {ElemList(FALSE, n) : n \in 0..MaxElems}
    \cup {ElemList(TRUE, n) : n \in 0..1}

\* One target host, one direction: every number of elements on either side,
\* with and without _PATH, every --ntasks from 0 on
SchedInputs ==
    { [config   |-> MkConfig(<< H1, H2 >>,
                             [h \in {H1, H2} |-> IF h = H1 THEN et ELSE eg],
                             NoAliases),
       hostname |-> LocalName,
       args     |-> MkArgs(<< H2 >>, up, ~up, FALSE, nt)] :
         et \in ElemLists, eg \in ElemLists, up \in BOOLEAN,
         nt \in 0..MaxNtasks }

InitSched == \E in \in SchedInputs : InitWith(in)

\* all sequences over S of length 1..n
SeqsUpTo(S, n) == UNION {[1..k -> S] : k \in 1..n}

\* The whole run: this host h1 with _PATH and two elements, h2 sharing both,
\* h3 (with a _PATH of its own) sharing one; every list of up to MaxTargets
\* targets among h2 and h3, every choice of --up, --down and --dry-run
RunInputs ==
    { [config   |-> MkConfig(<< H1, H2, H3 >>,
                             [h \in {H1, H2, H3} |->
                                 IF h = H1 THEN << PATH, "e1", "e2" >>
                                 ELSE IF h = H2 THEN << "e1", "e2" >>
                                 ELSE << PATH, "e2" >>],
                             NoAliases),
       hostname |-> LocalName,
       args     |-> MkArgs(tg, up, down, dry, nt)] :
         tg \in SeqsUpTo({H2, H3}, MaxTargets), up \in BOOLEAN,
         down \in BOOLEAN, dry \in BOOLEAN, nt \in 1..MaxNtasks }

\* Host resolution: host names that are parts of one another, in every
\* order, with and without an ALIASES section; target tokens that name a
\* host, contain one, are an alias, are `all` or match nothing
A == << "a" >>
B == << "b" >>
AB == << "a", "b" >>
X == << "x" >>

HostPool == {A, B, AB}

Injective(seq) == \A i, j \in DOMAIN seq : seq[i] = seq[j] => i = j

KeyLists ==
    LET hosts == {k \in SeqsUpTo(HostPool, MaxHosts) : Injective(k)}
    IN  hosts \cup {<< ALIASES >> \o k : k \in hosts}

\* the inputs of a run whose configuration file does not exist
NoConfigFile(in) == [in EXCEPT !.config.is_file = FALSE]

ResolvableInputs ==
    { [config   |-> MkConfig(keys,
                             [h \in Range(keys) \ {ALIASES} |-> << "e1" >>],
                             al),
       hostname |-> name,
       args     |-> MkArgs(tg, TRUE, FALSE, FALSE, 1)] :
         keys \in KeyLists,
         al \in {NoAliases, [t \in {X} |-> A], [t \in {X} |-> AB]},
         name \in {A \o << ".", "l" >>, AB, << "b", "a" >>, << "c" >>},
         tg \in SeqsUpTo({A, B, AB \o << "2" >>, X, ALL}, MaxTargets) }

HostsInputs ==
    ResolvableInputs
    \cup {NoConfigFile(in) : in \in {i \in ResolvableInputs :
                                        i.config.keys = << A >>}}

InitHosts == \E in \in HostsInputs : InitWith(in)

\* The runs that end in the constructor: the configuration file is missing,
\* the local network name holds no configured host, no target token names a
\* configured host, a target token names this host
FatalInputs ==
    LET runs == {in \in RunInputs : in.args.up /\ in.args.down
                                       /\ ~in.args.dry_run}
    IN  {NoConfigFile(in) : in \in runs}
        \cup {[in EXCEPT !.hostname = << "c" >>] : in \in runs}
        \cup {[in EXCEPT !.args.targets = << X >>] : in \in runs}
        \cup {[in EXCEPT !.args.targets = Append(@, H1)] : in \in runs}

Init == \E in \in RunInputs \cup FatalInputs : InitWith(in)

Next ==
    \/ Construct
    \/ RunSyncBegin
    \/ SkipPhase
    \/ ProcessHostBegin
    \/ \E i \in DOMAIN tasks : TaskStart(i)
    \/ \E i \in DOMAIN tasks : TaskResume(i)
    \/ \E i \in DOMAIN tasks : SubprocessExit(i)
    \/ \E i \in DOMAIN tasks : TaskFinish(i)
    \/ EvalResult
    \/ ProcessHostReturn
    \/ Fold

Spec == Init /\ [][Next]_vars

SpecSched == InitSched /\ [][Next]_vars

\* host resolution alone: the constructor is the only step
NextHosts == Construct

SpecHosts == InitHosts /\ [][NextHosts]_vars

\* one target host and one direction, every step that stays possible is
\* taken in the end: the event loop runs every task that is ready, and every
\* subprocess that was started terminates
FairSched == SpecSched /\ WF_vars(Next)

-----------------------------------------------------------------------------
(* Properties *)

\* the tasks whose transfer subprocess runs
Running == {i \in DOMAIN tasks : tasks[i].st = "running"}

\* the last _process_host call has returned and no other has begun: cur,
\* tasks, ri and log are those of that call
Returned == pc # "phase" /\ returned # << >>

LastReturn == returned[Len(returned)]

\* classify_stderr: Fatal, Advisory, Clean
IsFatal(stderr) ==
    \/ In(<< "Connection refused" >>, stderr)
    \/ In(<< "Could not resolve hostname" >>, stderr)

IsClean(stderr) == stderr = << >>

IsAdvisory(stderr) == ~IsFatal(stderr) /\ ~IsClean(stderr)

AnyFatal == \E i \in DOMAIN tasks : IsFatal(tasks[i].stderr)

\* a line logged while the result of a task was evaluated
IsResultLine(line) ==
    line.of > 0 /\ line.msg # << "    Initializing command" >>

\* C1: at no instant do more transfer subprocesses of the (target_host,
\* direction) pair run than --ntasks allows
C1_ConcurrencyLimit == Cardinality(Running) <= args.ntasks

\* C1: as many subprocesses as permits run while a further task waits
C1_Witness ==
    /\ pc = "phase"
    /\ args.ntasks = 2
    /\ Cardinality(Running) = 2
    /\ \E i \in DOMAIN tasks : tasks[i].st = "waiting"

\* C2: with a limit of at least 1, a phase that has begun ends with every
\* task completed (it took a permit, ran its subprocess, returned its
\* result) and _process_host returned
C2_EveryTaskCompletes ==
    (pc = "phase" /\ args.ntasks >= 1) ~> (Returned /\ Gathered)

\* C2: a phase with more tasks than permits has returned
C2_Witness ==
    /\ Returned
    /\ Gathered
    /\ args.ntasks >= 1
    /\ Len(tasks) > args.ntasks

\* C3: a call one of whose tasks has a Fatal stderr returns False
C3_FatalReturnsFalse ==
    (Returned /\ AnyFatal) => LastReturn.result = FALSE

\* C3: the Fatal stderr is that of the last of three tasks, the others' are
\* Clean
C3_Witness ==
    /\ Returned
    /\ Len(tasks) = 3
    /\ IsFatal(tasks[3].stderr)
    /\ IsClean(tasks[1].stderr)
    /\ IsClean(tasks[2].stderr)
    /\ LastReturn.result = FALSE

\* C4: a call none of whose tasks has a Fatal stderr returns True exactly
\* when every stderr is Clean, and it has evaluated every result: every
\* message of every stdout is logged, and a warning for every Advisory stderr
C4_AdvisoryDowngrades ==
    (Returned /\ ~AnyFatal) =>
        /\ LastReturn.result =
               (\A i \in DOMAIN tasks : IsClean(tasks[i].stderr))
        /\ ~LastReturn.aborted
        /\ ri = Len(tasks) + 1
        /\ \A i \in DOMAIN tasks :
              /\ \A m \in GetLogInfo(tasks[i].stdout, tasks[i].src,
                                     tasks[i].dest, args.dry_run) :
                    \E k \in DOMAIN log : log[k] = LineOf("info", m, i)
              /\ IsAdvisory(tasks[i].stderr) =>
                    \E k \in DOMAIN log :
                        log[k].level = "warning" /\ log[k].of = i

\* C4: the first task's stderr is Advisory, a later task has messages
C4_Witness ==
    /\ Returned
    /\ ~AnyFatal
    /\ Len(tasks) >= 2
    /\ IsAdvisory(tasks[1].stderr)
    /\ tasks[2].stdout # EmptyStdout
    /\ LastReturn.result = FALSE

\* C5: the error of a Fatal stderr is the last line the call logs: the call
\* has returned, and no line was logged for the result of a later task
C5_NothingAfterFatal ==
    \A k \in DOMAIN log :
        log[k].level = "error" =>
            /\ k = Len(log)
            /\ pc # "phase"
            /\ \A j \in DOMAIN log :
                  IsResultLine(log[j]) => log[j].of <= log[k].of

\* C5: the first result is Fatal, the second has messages and an Advisory
\* stderr
C5_Witness ==
    /\ Returned
    /\ Len(tasks) >= 2
    /\ IsFatal(tasks[1].stderr)
    /\ tasks[2].stdout # EmptyStdout
    /\ IsAdvisory(tasks[2].stderr)

\* the directions the command line asks for, in the order they are run
ClaimedDirections ==
    IF ~args.up /\ ~args.down THEN << "up", "down" >>
    ELSE (IF args.up THEN << "up" >> ELSE << >>)
         \o (IF args.down THEN << "down" >> ELSE << >>)

RECURSIVE ExpectedCalls(_)
ExpectedCalls(hosts) ==
    IF hosts = << >> THEN << >>
    ELSE [k \in DOMAIN ClaimedDirections |->
             [host |-> Head(hosts), direction |-> ClaimedDirections[k]]]
         \o ExpectedCalls(Tail(hosts))

IsPrefix(s, t) == Len(s) <= Len(t) /\ SubSeq(t, 1, Len(s)) = s

\* C6: whatever the phases return, the calls made are the requested
\* directions of the target hosts, in order, once per occurrence of a host
\* in target_hosts, and every occurrence gets its report
C6_EveryPhaseInvoked ==
    /\ IsPrefix(calls, ExpectedCalls(target_hosts))
    /\ IsPrefix([i \in DOMAIN reports |-> reports[i].host], target_hosts)
    /\ pc = "done" =>
          /\ calls = ExpectedCalls(target_hosts)
          /\ Len(reports) = Len(target_hosts)

\* C6: the upload of a host was aborted by a Fatal stderr and its download
\* was run all the same
C6_Witness ==
    /\ Returned
    /\ Len(returned) = 2
    /\ returned[1].aborted
    /\ Len(calls) >= 2

\* C7: the report of a host is "Completed"/"Simulated ..." at info level
\* when every phase run for it returned True, and "... with error(s)" at
\* warning level otherwise
C7_HostOutcomeIsAnd ==
    [][Len(reports') = Len(reports) + 1 =>
          LET ok   == \A k \in DOMAIN returned : returned[k].result
              rep  == reports'[Len(reports')]
          IN  /\ rep.host = target_hosts[hi]
              /\ (rep.line.level = "info") <=> ok
              /\ (rep.line.level = "warning") <=> ~ok
              /\ EndsWith(rep.line.msg, "' with error(s)") <=> ~ok
              /\ rep.line.msg[1] =
                     IF args.dry_run THEN "Simulated" ELSE "Completed"]_vars

\* C7: a host whose upload returned True and whose download returned False
\* is reported with error(s)
C7_Witness ==
    /\ pc = "loop"
    /\ stage = "fold"
    /\ Len(returned) = 2
    /\ returned[1].result
    /\ ~returned[2].result

\* C8: for every target host the phases run are the upload and the download
\* when neither --up nor --down was given, and else those given
C8_DirectionSelection ==
    LET n == Len(ClaimedDirections)
    IN  /\ \A k \in DOMAIN calls :
              calls[k].direction = ClaimedDirections[((k - 1) % n) + 1]
        /\ pc = "done" => Len(calls) = n * Len(target_hosts)

\* C8: a run without --up and --down has ended
C8_Witness ==
    /\ pc = "done"
    /\ ~args.up
    /\ ~args.down
    /\ Len(calls) = 2 * Len(target_hosts)

\* C9: a call for two hosts that share no element besides _PATH returns
\* True, has run no task and has logged the line about no shared elements
\* once
C9_NoSharedElements ==
    (/\ Returned
     /\ (Range(Elements(this_host)) \cap Range(Elements(cur.host)))
            \ {PATH} = {})
    => /\ LastReturn.result = TRUE
       /\ tasks = << >>
       /\ Cardinality({k \in DOMAIN log :
                          log[k] = Line("info", NoSharedMsg(cur.direction))})
             = 1

\* C10: after a successful host resolution this_host is none of the
\* target_hosts, and there is a target host
C10_ThisHostNoTarget ==
    pc = "constructed" =>
        /\ ~Member(this_host, target_hosts)
        /\ target_hosts # << >>

\* C10: the resolution of `all` has succeeded with two target hosts
C10_Witness ==
    /\ pc = "constructed"
    /\ Member(ALL, args.targets)
    /\ Len(target_hosts) = 2

\* a sequence without the later occurrences of its members
RECURSIVE DedupFirstSeen(_)
DedupFirstSeen(seq) ==
    IF seq = << >> THEN << >>
    ELSE LET front == DedupFirstSeen(SubSeq(seq, 1, Len(seq) - 1))
             last  == seq[Len(seq)]
         IN  IF Member(last, front) THEN front ELSE Append(front, last)

\* C11: the resolved target_hosts holds no host twice and keeps the order in
\* which the hosts were first named
C11_TargetsDeduplicated ==
    pc = "constructed" => target_hosts = DedupFirstSeen(target_hosts)

\* the configured hosts that are part of the local network name, in
\* configuration order
LocalCandidates ==
    SelectSeq(AllHosts(config), LAMBDA host : In(host, hostname))

\* C14: this_host is the first configured host that is part of the local
\* network name
C14_FirstMatchWins ==
    pc = "constructed" => this_host = Head(LocalCandidates)

\* C15: when `all` is among the targets, target_hosts is every configured
\* host but this_host, in configuration order
C15_AllMeansAllOthers ==
    (pc = "constructed" /\ Member(ALL, args.targets)) =>
        target_hosts =
            SelectSeq(AllHosts(config), LAMBDA host : host # this_host)

\* the constructor has ended the run with an error
Fatal == error # "none"

\* C12: a run that ends with a fatal configuration or resolution error
\* (configuration file missing, no configured host in the local network
\* name, no target host resolved, this host among the targets) ends in the
\* constructor: the pre-command has not run, no _process_host call was made,
\* no task was created, no semaphore exists, and no step follows
C12_FatalBeforeAnyTransfer ==
    Fatal => /\ pc = error
             /\ error \in {"ConfigNotFound", "NoLocalHostMatch",
                            "NoTargetHostMatch", "SelfSyncRequested"}
             /\ hi = 0
             /\ calls = << >>
             /\ tasks = << >>
             /\ semaphores = << >>
             /\ log = << >>
             /\ ~ENABLED Next

C12_Witness ==
    /\ error = "SelfSyncRequested"
    /\ pc = "SelfSyncRequested"
    /\ Len(args.targets) > 1
    /\ tasks = << >>

\* C13: the messages logged at info level for the results of one phase are
\* pairwise different: a line that two tasks of the phase both print, such
\* as 'created directory d', gives one message
C13_DedupAcrossTasks ==
    \A i, j \in DOMAIN log :
        (log[i].level = "info" /\ log[j].level = "info"
         /\ log[i].of > 0 /\ log[j].of > 0 /\ log[i].msg = log[j].msg)
            => i = j

\* C16: the phases run one after the other, in the order of target_hosts and
\* for each host the upload before the download: while the loop of _run_sync
\* is between two phases every task of the last phase has terminated and
\* returned its result, and while a phase runs every phase before it has
\* returned, no phase after it has begun, and every task is one of its own
C16_PhasesSequential ==
    /\ pc # "phase" => \A i \in DOMAIN tasks : tasks[i].st = "done"
    /\ pc = "phase" =>
          /\ Len(calls) < Len(ExpectedCalls(target_hosts))
          /\ cur = ExpectedCalls(target_hosts)[Len(calls) + 1]
          /\ cur.host = target_hosts[hi]
          /\ \A i \in DOMAIN tasks :
                tasks[i] = [NewTask(tasks[i].element, cur.direction, cur.host)
                               EXCEPT !.st = tasks[i].st,
                                      !.stdout = tasks[i].stdout,
                                      !.stderr = tasks[i].stderr]

\* C16: a subprocess of the download of the second host runs, after three
\* phases have returned
C16_Witness ==
    /\ pc = "phase"
    /\ hi = 2
    /\ cur.direction = "down"
    /\ Len(calls) = 3
    /\ Running # {}

\* the loop of lines 346-371 has begun: a result was read, or a line was
\* logged for one
EvaluationBegun == ri > 1 \/ \E k \in DOMAIN log : IsResultLine(log[k])

\* C17: _process_host reads the first result, logs a line for a result, or
\* returns, only when every task it handed to gather has terminated and
\* returned; the results are one per task: each evaluation reads the result
\* of a task of its own that is done, and a call that was not cut short by a
\* connection error has read every one of them
C17_FullJoin ==
    /\ (EvaluationBegun \/ Returned) => Gathered
    /\ ri \in 1..(Len(tasks) + 1)
    /\ \A k \in DOMAIN log :
          IsResultLine(log[k]) =>
              /\ log[k].of \in DOMAIN tasks
              /\ log[k].of <= ri
              /\ tasks[log[k].of].st = "done"
    /\ (Returned /\ ~LastReturn.aborted) => ri = Len(tasks) + 1

\* C17: the first of three results has been evaluated, every task is done
C17_Witness ==
    /\ pc = "phase"
    /\ Len(tasks) = 3
    /\ ri = 2
    /\ Gathered
    /\ \E k \in DOMAIN log : IsResultLine(log[k])

\* the index of element e in the sequence seq
IndexOf(e, seq) == CHOOSE k \in DOMAIN seq : seq[k] = e

\* the steps a task may take: acquire() admits or suspends it, a release()
\* wakes it, the subprocess is started when it holds a permit, terminates,
\* and the task returns
TaskStep(from, to) ==
    \/ from = to
    \/ from = "pending" /\ to \in {"waiting", "running"}
    \/ from = "waiting" /\ to = "woken"
    \/ from = "woken" /\ to = "running"
    \/ from = "running" /\ to = "exited"
    \/ from = "exited" /\ to = "done"

\* C18: the tasks of a call are one per element that this host and the
\* target host both have, _PATH aside, in the order of the elements of this
\* host, and none else; the subprocess of a task is started once: a task
\* starts it when it is admitted or resumed, never again, and no task
\* returns without having run it
C18_OneTaskPerSharedElement ==
    [][/\ cur'.host # None =>
             LET element == [i \in DOMAIN tasks' |-> tasks'[i].element]
                 elements_this == Elements(this_host)
                 elements_target == Elements(cur'.host)
             IN  /\ Injective(element)
                 /\ Range(element) =
                        (Range(elements_this) \cap Range(elements_target))
                            \ {PATH}
                 /\ \A i, j \in DOMAIN element :
                       i < j => IndexOf(element[i], elements_this)
                                    < IndexOf(element[j], elements_this)
       /\ pc = "phase" =>
             \A i \in DOMAIN tasks :
                 /\ i \in DOMAIN tasks'
                 /\ tasks'[i].element = tasks[i].element
                 /\ TaskStep(tasks[i].st, tasks'[i].st)]_vars

\* C18: both hosts have _PATH, this host has an element the target host has
\* not; the one task of the shared element has run its subprocess
C18_Witness ==
    /\ Returned
    /\ Member(PATH, Elements(this_host))
    /\ Member(PATH, Elements(cur.host))
    /\ \E e \in Range(Elements(this_host)) \ {PATH} :
          ~Member(e, Elements(cur.host))
    /\ Len(tasks) = 1
    /\ tasks[1].st = "done"

\* the index of the first task with a Fatal stderr, in submission order
FirstFatal ==
    CHOOSE i \in DOMAIN tasks :
        IsFatal(tasks[i].stderr)
        /\ \A j \in 1..(i - 1) : ~IsFatal(tasks[j].stderr)

\* the index of the last result a call reads, in submission order
LastEvaluated == IF AnyFatal THEN FirstFatal ELSE Len(tasks)

\* the lines logged for the result of task i
ResultLinesOf(i) ==
    SelectSeq(log, LAMBDA line : IsResultLine(line) /\ line.of = i)

\* what the outputs of task i give to log when its messages come in the order
\* `order`: the stdout, the messages, then the error of a Fatal stderr or the
\* warning of an Advisory one
ExpectedLines(i, order) ==
    (IF tasks[i].stdout # EmptyStdout
     THEN << LineOf("debug", << "    " >> \o JoinLines(tasks[i].stdout), i) >>
     ELSE << >>)
    \o [k \in DOMAIN order |-> LineOf("info", order[k], i)]
    \o (IF IsFatal(tasks[i].stderr)
        THEN << LineOf("error", CannotConnectMsg(cur.direction, cur.host),
                       i) >>
        ELSE IF IsAdvisory(tasks[i].stderr)
        THEN << LineOf("warning",
                       << "    " >> \o WarningOf(tasks[i].stderr), i) >>
        ELSE << >>)

\* C19: what a call that ran tasks returns and logs is fixed by the outputs
\* of its tasks taken in submission order, whatever the order the tasks ran
\* and terminated in: it returns True exactly when every stderr is Clean;
\* its log is the start line, one line per task at its creation, then, task
\* by task in submission order up to the first Fatal stderr, the lines of
\* that task's outputs (the messages of one stdout in the order the set of
\* line 207 is iterated in), and nothing for a later task
C19_SubmissionOrder ==
    (Returned /\ tasks # << >>) =>
        /\ LastReturn.result =
               (\A i \in DOMAIN tasks : IsClean(tasks[i].stderr))
        /\ LastReturn.aborted = AnyFatal
        /\ SelectSeq(log, LAMBDA line : ~IsResultLine(line)) =
               << Line("info", StartedMsg(cur.direction, args.dry_run)) >>
               \o [i \in DOMAIN tasks |->
                      LineOf("debug", << "    Initializing command" >>, i)]
        /\ \A k, l \in DOMAIN log :
              (k < l /\ IsResultLine(log[k])) =>
                  IsResultLine(log[l]) /\ log[k].of <= log[l].of
        /\ \A i \in DOMAIN tasks :
              IF i <= LastEvaluated
              THEN \E order \in Orders(GetLogInfo(tasks[i].stdout,
                                                  tasks[i].src,
                                                  tasks[i].dest,
                                                  args.dry_run)) :
                      ResultLinesOf(i) = ExpectedLines(i, order)
              ELSE ResultLinesOf(i) = << >>

\* C19: three tasks whose outputs differ have returned; the second has an
\* Advisory stderr, the third a stdout with messages
C19_Witness ==
    /\ Returned
    /\ Len(tasks) = 3
    /\ args.ntasks = 2
    /\ IsClean(tasks[1].stderr)
    /\ tasks[1].stdout = EmptyStdout
    /\ IsAdvisory(tasks[2].stderr)
    /\ tasks[3].stdout # EmptyStdout
    /\ ~LastReturn.result

\* the permits taken from the semaphores of the hosts `hosts` and not given
\* back, both directions together
RECURSIVE HeldPermits(_)
HeldPermits(hosts) ==
    IF hosts = {} THEN 0
    ELSE LET h == CHOOSE h \in hosts : TRUE
         IN  (args.ntasks - semaphores[h]["up"].value)
             + (args.ntasks - semaphores[h]["down"].value)
             + HeldPermits(hosts \ {h})

\* C20: the transfer subprocesses that run are tasks of the one phase that
\* runs, and there are at most --ntasks of them in the whole run: each holds
\* a permit, only the semaphore of the running phase has permits taken, and
\* over the semaphores of all hosts and directions at most --ntasks permits
\* are taken
C20_OnePhaseRuns ==
    /\ Running # {} =>
          /\ pc = "phase"
          /\ \A i \in Running :
                tasks[i].dest = Dest(tasks[i].element, cur.direction, cur.host)
    /\ Cardinality(Running) <= HeldPermits(DOMAIN semaphores)
    /\ HeldPermits(DOMAIN semaphores) <= args.ntasks
    /\ \A h \in DOMAIN semaphores, d \in {"up", "down"} :
          (pc # "phase" \/ cur # [host |-> h, direction |-> d]) =>
              semaphores[h][d] = [value |-> args.ntasks, waiters |-> << >>]

\* C20: in the second phase of the second host the one permit is taken and
\* a task waits, the semaphores of the phases before are whole again
C20_Witness ==
    /\ pc = "phase"
    /\ hi = 2
    /\ cur.direction = "down"
    /\ Len(calls) = 3
    /\ args.ntasks = 1
    /\ Cardinality(Running) = 1
    /\ \E i \in DOMAIN tasks : tasks[i].st = "waiting"
    /\ target_hosts[1] # target_hosts[2]

\* the permits taken from the semaphore of the running (or last) phase
Held == args.ntasks - Sem.value

\* the tasks that have been given a permit and have not released it: woken
\* by a release() and not yet resumed, running their subprocess, or not yet
\* resumed after it has terminated
Holders ==
    {i \in DOMAIN tasks : tasks[i].st \in {"woken", "running", "exited"}}

\* C21 as stated: the permits taken from the semaphore of a (target_host,
\* direction) pair are as many as the pair's tasks whose subprocess has been
\* started and has not terminated, and all are free when the call returns
C21_HeldEqualsRunning ==
    cur.host # None =>
        /\ Held = Cardinality(Running)
        /\ Returned => Sem.value = args.ntasks

\* C21: the permits taken from the semaphore of a (target_host, direction)
\* pair are as many as the pair's tasks that were given a permit and have not
\* released it, which are at least the running subprocesses and at most
\* --ntasks; a task holds one permit at most: it never waits while it holds
\* one, and queues once; when the call returns every permit is free and
\* nobody waits
C21_PermitAccounting ==
    cur.host # None =>
        /\ Sem.value \in 0..args.ntasks
        /\ Held = Cardinality(Holders)
        /\ Cardinality(Running) <= Held
        /\ Injective(Sem.waiters)
        /\ Range(Sem.waiters) =
               {i \in DOMAIN tasks : tasks[i].st \in {"waiting", "woken"}}
        /\ Returned =>
              Sem = [value |-> args.ntasks, waiters |-> << >>]

\* C21: both permits are taken and no subprocess runs: one task was woken by
\* a release() and has not resumed, the subprocess of another has terminated
C21_Witness ==
    /\ pc = "phase"
    /\ args.ntasks = 2
    /\ Held = 2
    /\ Running = {}
    /\ \E i \in DOMAIN tasks : tasks[i].st = "woken"
    /\ \E i \in DOMAIN tasks : tasks[i].st = "exited"

=========================================================================
